---- MODULE Spec2Model ----
(***************************************************************************)
(* The electric-vehicle dashboard (Dashboard component): the record store  *)
(* filled by one asynchronous load, the two filter controls, the page      *)
(* controls, and the values every render derives from that state (filtered *)
(* view, summary statistics, distributions, yearly averages, page).        *)
(*                                                                         *)
(* Scope.  The CSV parser and the widgets are outside the model: the       *)
(* parser is an input (the load publishes some sequence of records), and   *)
(* of the widgets only the values their handlers receive are modelled.     *)
(* The option list of the year control is built with year.toString(); the  *)
(* model offers an option for the numeric years only.                      *)
(***************************************************************************)
EXTENDS Integers, Sequences, FiniteSets, TLC

VARIABLES data, currentPage, selectedYear, selectedMake, status

vars == <<data, currentPage, selectedYear, selectedMake, status>>

ITEMS_PER_PAGE == 10

TopCount == 5

(***************************************************************************)
(* Bounds of the model.                                                    *)
(***************************************************************************)
MaxRecords == 23
MaxPattern == 2
MaxHead == 2
MaxTail == 7

(***************************************************************************)
(* JavaScript values.  Every value a record field or a piece of state can  *)
(* hold is a tagged record, so that null, undefined, NaN, 0 and "" stay    *)
(* distinct and the language's coercions can be written out.               *)
(***************************************************************************)
Null == [t |-> "null", n |-> 0, s |-> ""]
Undefined == [t |-> "undefined", n |-> 0, s |-> ""]
NaN == [t |-> "nan", n |-> 0, s |-> ""]
Num(k) == [t |-> "number", n |-> k, s |-> ""]
Str(x) == [t |-> "string", n |-> 0, s |-> x]

\* The numbers a numeric field of the dataset can hold in this model.
Numerals == {0, 2019, 2020, 2021, 50, 100}

\* ToBoolean: 0, NaN, "", null and undefined are falsy.
Truthy(v) ==
  CASE v.t = "number" -> v.n # 0
    [] v.t = "string" -> v.s # ""
    [] OTHER -> FALSE

\* The === operator: same type and same value, and NaN equals nothing.
StrictEq(a, b) == a.t # "nan" /\ a = b

\* Number("..."): the empty string is 0, a decimal numeral is its value,
\* anything else is NaN.
ParseNumber(x) ==
  IF x = "" THEN Num(0)
  ELSE IF \E k \in Numerals : ToString(k) = x
       THEN Num(CHOOSE k \in Numerals : ToString(k) = x)
       ELSE NaN

\* ToNumber: null is 0, undefined is NaN, a string is parsed.
ToNumber(v) ==
  CASE v.t = "number" -> v
    [] v.t = "nan" -> NaN
    [] v.t = "null" -> Num(0)
    [] v.t = "undefined" -> NaN
    [] OTHER -> ParseNumber(v.s)

\* The global isNaN(v): ToNumber(v) is NaN.
IsNaN(v) == ToNumber(v).t = "nan"

\* Number.prototype.toString / String(v) for the values used as keys.
ToStr(v) ==
  CASE v.t = "number" -> ToString(v.n)
    [] v.t = "string" -> v.s
    [] v.t = "nan" -> "NaN"
    [] OTHER -> v.t

Min(a, b) == IF a < b THEN a ELSE b
Max(a, b) == IF a > b THEN a ELSE b

\* Math.ceil(a / b) for a >= 0, b > 0.
CeilDiv(a, b) == (a + b - 1) \div b

\* Array.prototype.slice(start, end): negative indices count from the end,
\* both are clamped to the array.
SliceIndex(i, len) == IF i < 0 THEN Max(len + i, 0) ELSE Min(i, len)

Slice(seq, start, end) ==
  LET from == SliceIndex(start, Len(seq))
      to == SliceIndex(end, Len(seq))
  IN  IF from < to THEN SubSeq(seq, from + 1, to) ELSE <<>>

\* Array.from(new Set(seq)): the distinct values in first-seen order.
Distinct(seq) ==
  LET firsts == SelectSeq([i \in 1..Len(seq) |-> i],
                          LAMBDA i : \A j \in 1..(i - 1) : seq[j] # seq[i])
  IN  [k \in 1..Len(firsts) |-> seq[firsts[k]]]

Range(seq) == {seq[i] : i \in 1..Len(seq)}

\* Array.prototype.map over one field.
MapYear(seq) == [i \in 1..Len(seq) |-> seq[i].year]
MapMake(seq) == [i \in 1..Len(seq) |-> seq[i].make]

(***************************************************************************)
(* Records.  id stands for the identifying columns of a row; its value is  *)
(* the row's position in the dataset.                                      *)
(***************************************************************************)
Row(i, year, make, range, type) ==
  [id |-> i, year |-> year, make |-> make, range |-> range, type |-> type]

(***************************************************************************)
(* Values derived on every render.                                         *)
(***************************************************************************)
Keep(item, year, make) ==
  /\ IF Truthy(year) THEN StrictEq(item.year, year) ELSE TRUE
  /\ IF Truthy(make) THEN StrictEq(item.make, make) ELSE TRUE

Filter(store, year, make) ==
  SelectSeq(store, LAMBDA item : Keep(item, year, make))

filteredData == Filter(data, selectedYear, selectedMake)

totalVehicles == Len(filteredData)

\* A page computed as if pages were numbered from 0.
PaginatedDataZeroBased(view, page) ==
  Slice(view, page * ITEMS_PER_PAGE, (page + 1) * ITEMS_PER_PAGE)

PaginatedData(view, page) ==
  Slice(view, (page - 1) * ITEMS_PER_PAGE, page * ITEMS_PER_PAGE)

paginatedData == PaginatedData(filteredData, currentPage)

UniqueYears(store) == Distinct(MapYear(store))

uniqueYears == UniqueYears(data)

UniqueMakesList(store) == Distinct(MapMake(store))

\* The make facet taken from the filtered view instead of the store.
uniqueMakesOfView == UniqueMakesList(filteredData)

uniqueMakesList == UniqueMakesList(data)

\* The range shown above the table.
startIndex == (currentPage - 1) * ITEMS_PER_PAGE + 1
endIndex == Min(currentPage * ITEMS_PER_PAGE, totalVehicles)

\* The values the year control can hand to its handler.
YearOptions ==
  {Str("all-years")} \cup
  {Str(ToStr(y)) : y \in {v \in Range(uniqueYears) : v.t = "number"}}

\* The values the make control can hand to its handler: the option values,
\* which are the store's makes as they are (an item whose make is null
\* hands over null; an empty string is not a legal option value).
MakeOptions ==
  {Str("all-makes")} \cup
  {m \in Range(uniqueMakesList) : m.t = "null" \/ Truthy(m)}

(***************************************************************************)
(* Objects used as accumulators.  An object is the sequence of its         *)
(* properties in insertion order; enumeration (Object.entries,             *)
(* Object.values) lists the array-index keys first, in ascending numeric   *)
(* order, and then the other keys in insertion order.                      *)
(***************************************************************************)
IsIndexKey(k) == k # "" /\ ParseNumber(k).t = "number"

HasKey(acc, k) == \E i \in 1..Len(acc) : acc[i].name = k

IndexOfKey(acc, k) == CHOOSE i \in 1..Len(acc) : acc[i].name = k

\* Array.prototype.sort is stable: elements go by ascending key, and equal
\* keys keep their order.  key is the sequence of the elements' sort keys.
StableSort(seq, key) ==
  LET pos(i) == 1 + Cardinality({j \in 1..Len(seq) :
                      key[j] < key[i] \/ (key[j] = key[i] /\ j < i)})
  IN  [p \in 1..Len(seq) |-> seq[CHOOSE i \in 1..Len(seq) : pos(i) = p]]

ObjectEntries(acc) ==
  LET idx == SelectSeq(acc, LAMBDA e : IsIndexKey(e.name))
      rest == SelectSeq(acc, LAMBDA e : ~IsIndexKey(e.name))
  IN  StableSort(idx, [i \in 1..Len(idx) |-> ParseNumber(idx[i].name).n])
        \o rest

\* acc[k] = (acc[k] ?? 0) + 1
Increment(acc, k) ==
  IF HasKey(acc, k)
  THEN [acc EXCEPT ![IndexOfKey(acc, k)].value = @ + 1]
  ELSE Append(acc, [name |-> k, value |-> 1])

\* The bucket of a categorical field: field || "Unknown".
Bucket(v) == IF Truthy(v) THEN ToStr(v) ELSE "Unknown"

(***************************************************************************)
(* Summary statistics.                                                     *)
(***************************************************************************)
UniqueMakes(view) == Cardinality(Range(MapMake(view)))

uniqueMakes == UniqueMakes(filteredData)

\* item["Electric Range"] || 0
RangeOrZero(item) == IF Truthy(item.range) THEN item.range.n ELSE 0

RECURSIVE SumRange(_)
SumRange(view) ==
  IF view = <<>> THEN 0
  ELSE SumRange(SubSeq(view, 1, Len(view) - 1)) + RangeOrZero(view[Len(view)])

\* A division that answers 0 for an empty denominator.
DivideOrZero(a, b) ==
  IF b # 0 THEN [t |-> "number", num |-> a, den |-> b]
  ELSE [t |-> "number", num |-> 0, den |-> 1]

\* The / operator on non-negative numbers: 0/0 is NaN, x/0 is Infinity.
Divide(a, b) ==
  IF b # 0 THEN [t |-> "number", num |-> a, den |-> b]
  ELSE IF a = 0 THEN [t |-> "nan", num |-> 0, den |-> 0]
       ELSE [t |-> "infinity", num |-> 0, den |-> 0]

AverageRange(view) == Divide(SumRange(view), Len(view))

averageRange == AverageRange(filteredData)

(***************************************************************************)
(* Vehicle-type distribution.                                              *)
(***************************************************************************)
RECURSIVE VehicleTypes(_)
VehicleTypes(view) ==
  IF view = <<>> THEN <<>>
  ELSE Increment(VehicleTypes(SubSeq(view, 1, Len(view) - 1)),
                 Bucket(view[Len(view)].type))

VehicleTypesData(view) == ObjectEntries(VehicleTypes(view))

vehicleTypesData == VehicleTypesData(filteredData)

(***************************************************************************)
(* Top-5 makes.                                                            *)
(***************************************************************************)
RECURSIVE MakeDistribution(_)
MakeDistribution(view) ==
  IF view = <<>> THEN <<>>
  ELSE Increment(MakeDistribution(SubSeq(view, 1, Len(view) - 1)),
                 Bucket(view[Len(view)].make))

\* The comparator reversed: a[1] - b[1].
MakeDistributionDataAscending(view) ==
  LET entries == ObjectEntries(MakeDistribution(view))
      sorted == StableSort(entries,
                           [i \in 1..Len(entries) |-> entries[i].value])
  IN  Slice(sorted, 0, TopCount)

\* .sort((a, b) => b[1] - a[1]).slice(0, 5)
MakeDistributionData(view) ==
  LET entries == ObjectEntries(MakeDistribution(view))
      sorted == StableSort(entries,
                           [i \in 1..Len(entries) |-> 0 - entries[i].value])
  IN  Slice(sorted, 0, TopCount)

makeDistributionData == MakeDistributionData(filteredData)

(***************************************************************************)
(* Average range by model year.                                            *)
(***************************************************************************)
\* One step of the reduce.
RangeByYearStep(acc, item) ==
  IF ~IsNaN(item.year) /\ ~IsNaN(item.range)
  THEN LET k == ToStr(item.year)
           acc1 == IF HasKey(acc, k) THEN acc
                   ELSE Append(acc, [name |-> k, year |-> item.year,
                                     averageRange |-> 0, count |-> 0])
           i == IndexOfKey(acc1, k)
       IN  [acc1 EXCEPT ![i].averageRange = @ + ToNumber(item.range).n,
                        ![i].count = @ + 1]
  ELSE acc

RECURSIVE RangeByYear(_)
RangeByYear(view) ==
  IF view = <<>> THEN <<>>
  ELSE RangeByYearStep(RangeByYear(SubSeq(view, 1, Len(view) - 1)),
                       view[Len(view)])

\* Object.values(...).map(...).sort((a, b) => a.year - b.year)
RangeByYearData(view) ==
  LET values == ObjectEntries(RangeByYear(view))
      mapped == [i \in 1..Len(values) |->
                   [year |-> values[i].year,
                    averageRange |-> Divide(values[i].averageRange,
                                            values[i].count)]]
  IN  StableSort(mapped,
                 [i \in 1..Len(mapped) |-> ToNumber(mapped[i].year).n])

rangeByYearData == RangeByYearData(filteredData)

(***************************************************************************)
(* Datasets the load can publish.                                          *)
(***************************************************************************)
\* The year and make of a row: a model year or 0, an empty cell (null) or a
\* missing one (undefined); a make name or no make.
Shape ==
  {[year |-> Num(2020), make |-> Str("TESLA")],
   [year |-> Num(2020), make |-> Str("FORD")],
   [year |-> Num(0), make |-> Str("TESLA")],
   [year |-> Null, make |-> Str("FORD")],
   [year |-> Undefined, make |-> Null]}

\* The other columns go by the row's position.
TypeOf(i) ==
  IF i % 3 = 0 THEN Null ELSE IF i % 3 = 1 THEN Str("BEV") ELSE Str("PHEV")

RangeOf(i) ==
  IF i % 5 = 0 THEN Null
  ELSE IF i % 5 = 4 THEN Undefined ELSE Num(50 * ((i % 5) - 1))

Patterns == UNION {[1..k -> Shape] : k \in 1..MaxPattern}

\* n rows that repeat the pattern.
Repeat(pat, n) ==
  [i \in 1..n |->
     LET p == pat[((i - 1) % Len(pat)) + 1]
     IN  Row(i, p.year, p.make, RangeOf(i), TypeOf(i))]

\* Dataset sizes: empty, a few rows, and the sizes around each page boundary.
Sizes ==
  {0, 1, 2, ITEMS_PER_PAGE, ITEMS_PER_PAGE + 1} \cup
  ((2 * ITEMS_PER_PAGE)..MaxRecords)

Datasets == {Repeat(pat, n) : pat \in Patterns, n \in Sizes}

\* Datasets for the make distribution: a free head followed by a tail that
\* cycles through every make value, forwards or backwards.
MakeAlphabet ==
  <<Str("TESLA"), Str("FORD"), Str("NISSAN"), Str("KIA"), Str("BMW"),
    Null, Str("")>>

Heads == UNION {[1..k -> Range(MakeAlphabet)] : k \in 0..MaxHead}

Cycle(n, forward) ==
  [i \in 1..n |->
     LET k == ((i - 1) % Len(MakeAlphabet)) + 1
     IN  MakeAlphabet[IF forward THEN k ELSE Len(MakeAlphabet) + 1 - k]]

MakeRows(makes) ==
  [i \in 1..Len(makes) |-> Row(i, Num(2020), makes[i], Num(100), Str("BEV"))]

MakeDatasets ==
  {MakeRows(h \o Cycle(n, f)) : h \in Heads, n \in 0..MaxTail, f \in BOOLEAN}

(***************************************************************************)
(* Actions.                                                                *)
(***************************************************************************)
Init ==
  /\ data = <<>>
  /\ currentPage = 1
  /\ selectedYear = Null
  /\ selectedMake = Null
  /\ status = "loading"

\* The effect without its empty dependency list: the load runs again after
\* every render.
FetchDataEveryRender(S) ==
  /\ \E d \in S : data' = d
  /\ status' = "loaded"
  /\ UNCHANGED <<currentPage, selectedYear, selectedMake>>

\* The effect's fetchData resolves: fetch, parse, setData(result.data).
FetchDataFrom(S) ==
  /\ status = "loading"
  /\ \E d \in S : data' = d
  /\ status' = "loaded"
  /\ UNCHANGED <<currentPage, selectedYear, selectedMake>>

FetchDataOK == FetchDataFrom(Datasets)

\* fetchData throws: the error is logged and nothing else happens.
FetchDataFail ==
  /\ status = "loading"
  /\ status' = "failed"
  /\ UNCHANGED <<data, currentPage, selectedYear, selectedMake>>

\* onValueChange of the year control.
YearChange(value) ==
  /\ selectedYear' = IF Truthy(value) THEN ToNumber(value) ELSE Null
  /\ UNCHANGED <<data, currentPage, selectedMake, status>>

SelectYear == \E value \in YearOptions : YearChange(value)

\* onValueChange of the make control.
MakeChange(value) ==
  /\ selectedMake' = IF Truthy(value) THEN value ELSE Null
  /\ UNCHANGED <<data, currentPage, selectedYear, status>>

SelectMake == \E value \in MakeOptions : MakeChange(value)

\* The Previous button: disabled on page 1.
Previous ==
  /\ currentPage # 1
  /\ currentPage' = Max(currentPage - 1, 1)
  /\ UNCHANGED <<data, selectedYear, selectedMake, status>>

\* The Next button: disabled when the page equals ceil(total / 10).
NextPage ==
  /\ currentPage # CeilDiv(totalVehicles, ITEMS_PER_PAGE)
  /\ currentPage' =
       Min(currentPage + 1, CeilDiv(totalVehicles, ITEMS_PER_PAGE))
  /\ UNCHANGED <<data, selectedYear, selectedMake, status>>

Next ==
  \/ FetchDataOK
  \/ FetchDataFail
  \/ SelectYear
  \/ SelectMake
  \/ Previous
  \/ NextPage

Spec == Init /\ [][Next]_vars

\* The same program fed with the datasets of the make distribution.
FetchMakeData == FetchDataFrom(MakeDatasets)

NextTopN ==
  \/ FetchMakeData
  \/ FetchDataFail
  \/ SelectMake

SpecTopN == Init /\ [][NextTopN]_vars

(***************************************************************************)
(* Properties.                                                             *)
(***************************************************************************)
LastPage(view) == CeilDiv(Len(view), ITEMS_PER_PAGE)

\* What a selection means: a year constraint is a number, a make
\* constraint is a string; anything else constrains nothing.
YearConstrained(year) == year.t = "number"
MakeConstrained(make) == make.t = "string"

Satisfies(item, year, make) ==
  /\ YearConstrained(year) =>
       item.year.t = "number" /\ item.year.n = year.n
  /\ MakeConstrained(make) =>
       item.make.t = "string" /\ item.make.s = make.s

Matching(store, year, make) ==
  SelectSeq(store, LAMBDA item : Satisfies(item, year, make))

\* C1: the current page never points past the last page of the current
\* filtered view: currentPage <= max(1, ceil(totalCount / 10)).
C1_PageNeverPastLastPage ==
  currentPage <= Max(1, LastPage(filteredData))

\* C2: the current page number is at least 1 in every reachable state, also
\* after Next on an empty view.
C2_PageAtLeastOne == currentPage >= 1

\* C3: the filtered view is exactly the store's records, in store order,
\* that equal the selected year when one is set and the selected make when
\* one is set; an absent year never matches; the view is no longer than the
\* store and a second constraint never enlarges it.
C3_ViewIsMatchingSubsequence ==
  /\ filteredData = Matching(data, selectedYear, selectedMake)
  /\ Len(filteredData) <= Len(data)
  /\ Len(filteredData) <= Len(Filter(data, selectedYear, Null))
  /\ Len(filteredData) <= Len(Filter(data, Null, selectedMake))

\* C4: for every page p in 1..ceil(totalCount / 10) the page is the view's
\* records at positions (p-1)*10+1 .. min(p*10, totalCount), in order, 1 to
\* 10 of them; the range shown is that one; the pages from the first to the
\* last together are the view, every record once.
RECURSIVE PagesUpTo(_, _)
PagesUpTo(view, p) ==
  IF p = 0 THEN <<>> ELSE PagesUpTo(view, p - 1) \o PaginatedData(view, p)

C4_PageIsExactRange ==
  /\ \A p \in 1..LastPage(filteredData) :
       LET lo == (p - 1) * ITEMS_PER_PAGE + 1
           hi == Min(p * ITEMS_PER_PAGE, totalVehicles)
           page == PaginatedData(filteredData, p)
       IN  /\ Len(page) = hi - lo + 1
           /\ Len(page) \in 1..ITEMS_PER_PAGE
           /\ \A i \in 1..Len(page) : page[i] = filteredData[lo + i - 1]
  /\ currentPage \in 1..LastPage(filteredData) =>
       /\ Len(paginatedData) = endIndex - startIndex + 1
       /\ \A i \in 1..Len(paginatedData) :
            paginatedData[i] = filteredData[startIndex + i - 1]
  /\ PagesUpTo(filteredData, LastPage(filteredData)) = filteredData

C4_Witness_LastPageOf23 ==
  /\ totalVehicles = 23
  /\ currentPage = 3
  /\ Len(paginatedData) = 3
  /\ paginatedData[1].id = filteredData[21].id

\* C5: the distinct years and makes offered by the controls are those of the
\* whole store, and no selection or page action changes them once the store
\* is loaded.
C5_FacetsOverStoreUnchanged ==
  /\ [](/\ Range(uniqueYears) = {data[i].year : i \in 1..Len(data)}
        /\ Range(uniqueMakesList) = {data[i].make : i \in 1..Len(data)})
  /\ [][status = "loaded" =>
          /\ uniqueYears' = uniqueYears
          /\ uniqueMakesList' = uniqueMakesList]_vars

C5_Witness_TeslaSelectedFordOffered ==
  /\ status = "loaded"
  /\ selectedMake = Str("TESLA")
  /\ Str("FORD") \in Range(uniqueMakesList)
  /\ Str("FORD") \notin Range(MapMake(filteredData))
  /\ filteredData # <<>>

\* C6: the store changes at most once, from empty to loaded; nothing changes
\* it after the load, and after a failed load it stays empty.
C6_StoreLoadedOnce ==
  /\ [](status # "loaded" => data = <<>>)
  /\ [][/\ data' # data => status = "loading" /\ status' = "loaded"
        /\ status = "loaded" => status' = "loaded" /\ data' = data
        /\ status = "failed" => status' = "failed" /\ data' = <<>>]_vars

C6_Witness_LoadedThenUsed ==
  /\ status = "loaded"
  /\ Len(data) = MaxRecords
  /\ selectedMake # Null
  /\ selectedYear # Null
  /\ currentPage = 2

\* C7: the yearly averages have one entry per year that has a record with
\* both a valid year and a valid range, its average is the sum of those
\* records' ranges over their number, records missing either field count
\* for nothing, and the years are strictly ascending.
Qualifies(item) == item.year.t = "number" /\ item.range.t = "number"

QualifyingOf(view, y) ==
  SelectSeq(view, LAMBDA item : Qualifies(item) /\ item.year.n = y)

RECURSIVE SumOfRanges(_)
SumOfRanges(view) ==
  IF view = <<>> THEN 0 ELSE view[1].range.n + SumOfRanges(Tail(view))

C7_YearlyAverageOverValidRecords ==
  LET out == rangeByYearData
      view == filteredData
  IN  /\ \A i \in 1..Len(out) : out[i].year.t = "number"
      /\ {out[i].year.n : i \in 1..Len(out)} =
           {view[i].year.n : i \in {j \in 1..Len(view) : Qualifies(view[j])}}
      /\ \A i \in 1..Len(out) :
           LET q == QualifyingOf(view, out[i].year.n)
           IN  /\ out[i].averageRange.t = "number"
               /\ out[i].averageRange.num * Len(q) =
                    SumOfRanges(q) * out[i].averageRange.den
      /\ \A i, j \in 1..Len(out) : i < j => out[i].year.n < out[j].year.n

\* C8: the top-5 make distribution has min(5, number of make buckets)
\* entries (absent and empty makes are the bucket "Unknown"), each with the
\* number of view records of its bucket, no bucket left out is larger than
\* one listed, and the counts are in descending order.
MakeBucket(item) ==
  IF item.make.t = "string" /\ item.make.s # "" THEN item.make.s ELSE "Unknown"

BucketsOf(view) == {MakeBucket(view[i]) : i \in 1..Len(view)}

BucketCount(view, b) ==
  Cardinality({i \in 1..Len(view) : MakeBucket(view[i]) = b})

FirstSeen(view, b) ==
  CHOOSE i \in 1..Len(view) :
    /\ MakeBucket(view[i]) = b
    /\ \A j \in 1..(i - 1) : MakeBucket(view[j]) # b

TopFiveShape(out, view) ==
  /\ Len(out) = Min(TopCount, Cardinality(BucketsOf(view)))
  /\ \A i \in 1..Len(out) :
       /\ out[i].name \in BucketsOf(view)
       /\ out[i].value = BucketCount(view, out[i].name)
  /\ \A i, j \in 1..Len(out) : i # j => out[i].name # out[j].name
  /\ \A b \in BucketsOf(view) \ {out[i].name : i \in 1..Len(out)} :
       \A i \in 1..Len(out) : BucketCount(view, b) <= out[i].value

\* C8 as claimed: strictly descending counts.
C8_TopFiveStrictlyDescending ==
  /\ TopFiveShape(makeDistributionData, filteredData)
  /\ \A i, j \in 1..Len(makeDistributionData) :
       i < j => makeDistributionData[i].value > makeDistributionData[j].value

\* C8 amended: descending counts, not strictly; buckets of equal count are
\* in first-seen order of the view.
C8_TopFiveDescendingStable ==
  /\ TopFiveShape(makeDistributionData, filteredData)
  /\ \A i, j \in 1..Len(makeDistributionData) :
       i < j =>
         LET a == makeDistributionData[i]
             b == makeDistributionData[j]
         IN  \/ a.value > b.value
             \/ /\ a.value = b.value
                /\ FirstSeen(filteredData, a.name) <
                     FirstSeen(filteredData, b.name)

C8_Witness_SixBucketsWithTie ==
  /\ Cardinality(BucketsOf(filteredData)) > TopCount
  /\ Len(makeDistributionData) = TopCount
  /\ makeDistributionData[1].value > makeDistributionData[2].value
  /\ makeDistributionData[2].value = makeDistributionData[3].value
  /\ \E i \in 1..TopCount : makeDistributionData[i].name = "Unknown"

\* C9: when the filtered view is empty every aggregate is a no-data value:
\* no vehicles, no makes, an average that is NaN (not zero), empty
\* distributions, empty yearly averages and an empty page.
C9_EmptyViewGivesNoData ==
  filteredData = <<>> =>
    /\ totalVehicles = 0
    /\ uniqueMakes = 0
    /\ averageRange.t = "nan"
    /\ vehicleTypesData = <<>>
    /\ makeDistributionData = <<>>
    /\ rangeByYearData = <<>>
    /\ paginatedData = <<>>

C9_Witness_NoRecordMatches ==
  /\ status = "loaded"
  /\ data # <<>>
  /\ filteredData = <<>>
  /\ currentPage = 0

\* C10: right after "All Years" is chosen the view is every store record
\* that satisfies the make control's choice, and right after "All Makes" is
\* chosen it is every store record that satisfies the year control's choice.
ChosenYear == IF selectedYear.t = "number" THEN selectedYear ELSE Null

ChosenMake ==
  IF selectedMake.t = "string" /\ selectedMake # Str("all-makes")
  THEN selectedMake ELSE Null

C10_AllOptionUnsetsConstraint ==
  [][/\ YearChange(Str("all-years")) =>
          filteredData' = Matching(data, Null, ChosenMake)
     /\ MakeChange(Str("all-makes")) =>
          filteredData' = Matching(data, ChosenYear, Null)]_vars
====
